---------------------------- MODULE Spec2Model ----------------------------
(***************************************************************************)
(* A_Maze_Ing: the maze generator (src/mazegen/src/MazeGenerator.py) and   *)
(* the maze-file codec (src/a_maze_ing.py) as a state machine.             *)
(*                                                                         *)
(* Coordinates follow the source: x is the column, y the row; the grid is  *)
(* maze[y][x] with 0-based indices; the public coordinates are 1-based     *)
(* <<x, y>> pairs.  Strings are sequences of one-character strings.        *)
(***************************************************************************)
EXTENDS Integers, Sequences, FiniteSets, TLC

VARIABLES
    width,      \* MazeGenerator.width
    height,     \* MazeGenerator.height
    seed,       \* MazeGenerator.seed (None when no seed was given)
    self_maze,  \* MazeGenerator.maze (None until generate() has returned)
    maze,       \* the local grid that generate() builds
    entry,      \* generate()'s 1-based entry argument
    call,       \* the arguments <<x, y>> of the pending _backtrack call
    stack,      \* the frames of _backtrack: [x, y, neighbors, i]
    pc,         \* the position of the calling flow
    err,        \* the exception raised, or NoError
    exit_,      \* shortest_path()'s 1-based exit argument
    visited,    \* shortest_path(): the search's own visited matrix
    prev,       \* shortest_path(): cell -> <<predecessor, direction>>
    queue,      \* shortest_path(): the frontier, cells <<y, x>>
    path,       \* the string shortest_path() returned
    hex_matrix, \* the list to_hex_matrix() returned
    content,    \* the text of the output file
    parsed,     \* what parse_maze_file() returned
    rng,        \* the state of the process-wide random generator
    tape,       \* what seeded generators have been seen to draw
    runs        \* the outputs written so far, one record per run

cfgvars == <<width, height, seed, entry>>
rngvars == <<rng, tape>>
genvars == <<cfgvars, self_maze, maze, call, stack, rngvars>>
spvars == <<exit_, visited, prev, queue, path>>
iovars == <<hex_matrix, content, parsed>>

-----------------------------------------------------------------------------
(* Bounds of the model *)

\* Grids without the pattern: all W x H of at most MaxCells cells.
MaxCells == 6
\* Grids with the pattern: PATTERN_WIDTH .. PATTERN_WIDTH + ExtraW columns
\* and PATTERN_HEIGHT rows.
ExtraW == 1
\* How far outside 1..W, 1..H a requested coordinate may lie.
Margin == 1
\* The grid builder alone: all W x H with W <= MaxBuildW, H <= MaxBuildH.
MaxBuildW == 10
MaxBuildH == 8
\* shortest_path on arbitrary grids of at most MaxPathCells cells.
MaxPathCells == 6
\* to_hex_matrix on arbitrary grids of at most MaxHexCells cells.
MaxHexCells == 2
\* Seeded runs: grids up to MaxDetSide x MaxDetSide, seeds 1..MaxSeed, at
\* most MaxRuns runs one after another.
MaxDetSide == 2
MaxSeed == 1
MaxRuns == 2
\* Start resolution on grids of at most MaxStartCells cells, any of them
\* reserved.
MaxStartCells == 9
\* Sequences of calls on one generator: grids of at most MaxCallCells cells.
MaxCallCells == 4
\* Maze files of at most MaxFileLines lines.
MaxFileLines == 4
\* Runs to completion: grids of at most MaxFairCells cells and the smallest
\* grid with the pattern.
MaxFairCells == 5

-----------------------------------------------------------------------------
(* Values *)

None == <<>>
NoError == "None"

PATTERN_42 ==
    << <<1, 0, 1, 0, 1, 1, 1>>,
       <<1, 0, 1, 0, 0, 0, 1>>,
       <<1, 1, 1, 0, 1, 1, 1>>,
       <<0, 0, 1, 0, 1, 0, 0>>,
       <<0, 0, 1, 0, 1, 1, 1>> >>
PATTERN_HEIGHT == 5
PATTERN_WIDTH == 7

Max(a, b) == IF a >= b THEN a ELSE b

\* Cell.__init__: all walls closed, not visited, not part of the pattern.
NewCell(x, y) ==
    [n |-> FALSE, s |-> FALSE, e |-> FALSE, w |-> FALSE,
     visited |-> FALSE, x |-> x, y |-> y, is_42 |-> FALSE]

\* A Python list index: negative indices count from the end.
InRange(i, n) == -n <= i /\ i < n
Idx(i, n) == IF i < 0 THEN i + n ELSE i

\* maze[y][x] as Python evaluates it (only for indices in range).
At(m, x, y) == m[Idx(y, height)][Idx(x, width)]

-----------------------------------------------------------------------------
(* Grid builder *)

\* _create_closed_maze
CreateClosedMaze(W, H) ==
    [y \in 0..(H - 1) |-> [x \in 0..(W - 1) |-> NewCell(x, y)]]

\* _close_all_walls
CloseAllWalls(cell) ==
    [cell EXCEPT !.n = FALSE, !.s = FALSE, !.e = FALSE, !.w = FALSE]

\* (mutant) _add_42_pattern that also skips grids of exactly the pattern's
\* height or width (<= for < in lines 210-211)
AddPatternStrict(m, W, H) ==
    IF H <= PATTERN_HEIGHT \/ W <= PATTERN_WIDTH
    THEN m
    ELSE LET start_y == (H - PATTERN_HEIGHT) \div 2
             start_x == (W - PATTERN_WIDTH) \div 2
         IN [y \in 0..(H - 1) |-> [x \in 0..(W - 1) |->
                IF /\ y - start_y \in 0..(PATTERN_HEIGHT - 1)
                   /\ x - start_x \in 0..(PATTERN_WIDTH - 1)
                   /\ PATTERN_42[y - start_y + 1][x - start_x + 1] = 1
                THEN CloseAllWalls([m[y][x] EXCEPT !.is_42 = TRUE])
                ELSE m[y][x]]]

\* _add_42_pattern, lines 210-221: the cells (y, x) that get stamped: none
\* on a grid smaller than the pattern, else those the two loops over the
\* pattern reach with a 1 inside the grid.
PatternCells(W, H) ==
    IF H < PATTERN_HEIGHT \/ W < PATTERN_WIDTH
    THEN {}
    ELSE LET start_y == (H - PATTERN_HEIGHT) \div 2
             start_x == (W - PATTERN_WIDTH) \div 2
             ones == {p \in (0..(PATTERN_HEIGHT - 1)) \X (0..(PATTERN_WIDTH - 1)) :
                         PATTERN_42[p[1] + 1][p[2] + 1] = 1}
         IN {c \in {<<start_y + p[1], start_x + p[2]>> : p \in ones} :
                /\ 0 <= c[1] /\ c[1] < H
                /\ 0 <= c[2] /\ c[2] < W}

\* _add_42_pattern: the grid after stamping.
AddPattern(m, W, H) ==
    LET hit == PatternCells(W, H)
    IN [y \in 0..(H - 1) |-> [x \in 0..(W - 1) |->
           IF <<y, x>> \in hit
           THEN CloseAllWalls([m[y][x] EXCEPT !.is_42 = TRUE])
           ELSE m[y][x]]]

-----------------------------------------------------------------------------
(* Maze carver *)

\* _is_valid_neighbor
IsValidNeighbor(x, y, m) ==
    /\ 0 <= x /\ x < width /\ 0 <= y /\ y < height
    /\ ~m[y][x].is_42

\* (mutant) the list of line 234 without its last entry
PotentialWithoutEast(x, y) ==
    << <<x, y - 1, "N">>, <<x, y + 1, "S">>, <<x - 1, y, "W">> >>

\* _get_neighbors: the valid ones among N, S, W, E, in that order.
Potential(x, y) ==
    << <<x, y - 1, "N">>, <<x, y + 1, "S">>, <<x - 1, y, "W">>, <<x + 1, y, "E">> >>

RECURSIVE Filter(_, _, _)
Filter(seq, k, m) ==
    IF k > Len(seq) THEN <<>>
    ELSE IF IsValidNeighbor(seq[k][1], seq[k][2], m)
         THEN <<seq[k]>> \o Filter(seq, k + 1, m)
         ELSE Filter(seq, k + 1, m)

GetNeighbors(x, y, m) == Filter(Potential(x, y), 1, m)

\* random.shuffle(list): the list comes back in an order p, a permutation of
\* its positions.
Perms(n) == {p \in [1..n -> 1..n] : \A i, j \in 1..n : p[i] = p[j] => i = j}
Permute(seq, p) == [i \in 1..Len(seq) |-> seq[p[i]]]

\* The random module is one process-wide generator.  rng.seed is the seed it
\* was last given by random.seed (None: never seeded, seeded from the system),
\* rng.draws the shuffles drawn since.  A seeded generator is a function of
\* its seed and of what has been drawn from it: `tape` remembers the order
\* each such state was seen to produce, and the same state produces it again.
\* A list of fewer than two elements draws nothing.
Known(r, t, n) == {k \in t : k.seed = r.seed /\ k.draws = r.draws /\ k.n = n}

ShuffleOutcomes(r, t, n) ==
    IF r.seed = None \/ n < 2 \/ Known(r, t, n) = {}
    THEN Perms(n)
    ELSE {k.p : k \in Known(r, t, n)}

AfterShuffle(r, n, p) ==
    IF r.seed = None \/ n < 2 THEN r
    ELSE [r EXCEPT !.draws = Append(@, <<n, p>>)]

Observed(r, t, n, p) ==
    IF r.seed = None \/ n < 2 THEN t
    ELSE t \cup {[seed |-> r.seed, draws |-> r.draws, n |-> n, p |-> p]}

\* random.seed(seed), line 88
Seeded(s) == [seed |-> s, draws |-> <<>>]

\* _open_wall: the wall of `current` toward `direction` and the facing wall
\* of maze[ny][nx].  current is maze[y][x] as Python indexes it.
WallPairs(direction) ==
    CASE direction = "N" -> <<"n", "s">>
      [] direction = "S" -> <<"s", "n">>
      [] direction = "W" -> <<"w", "e">>
      [] direction = "E" -> <<"e", "w">>

SetWall(m, row, col, wall) ==
    [m EXCEPT ![row][col] =
        CASE wall = "n" -> [@ EXCEPT !.n = TRUE]
          [] wall = "s" -> [@ EXCEPT !.s = TRUE]
          [] wall = "e" -> [@ EXCEPT !.e = TRUE]
          [] wall = "w" -> [@ EXCEPT !.w = TRUE]]

\* (mutant) _open_wall without line 251: only the current cell's wall opens
OpenWallOneSided(m, x, y, nx, ny, direction) ==
    SetWall(m, Idx(y, height), Idx(x, width), WallPairs(direction)[1])

OpenWall(m, x, y, nx, ny, direction) ==
    LET cw == WallPairs(direction)[1]
        nw == WallPairs(direction)[2]
    IN SetWall(SetWall(m, Idx(y, height), Idx(x, width), cw), ny, nx, nw)

\* getattr(cell, wall)
GetWall(cell, wall) ==
    CASE wall = "n" -> cell.n
      [] wall = "s" -> cell.s
      [] wall = "e" -> cell.e
      [] wall = "w" -> cell.w

\* _find_start_cell: the scan over radius, dx, dy; None when it finds nothing.
RECURSIVE ScanDy(_, _, _, _, _, _)
ScanDy(m, ex, ey, radius, dx, dy) ==
    IF dy > radius THEN None
    ELSE IF IsValidNeighbor(ex + dx, ey + dy, m) /\ ~m[ey + dy][ex + dx].is_42
         THEN <<ex + dx, ey + dy>>
         ELSE ScanDy(m, ex, ey, radius, dx, dy + 1)

RECURSIVE ScanDx(_, _, _, _, _)
ScanDx(m, ex, ey, radius, dx) ==
    IF dx > radius THEN None
    ELSE LET found == ScanDy(m, ex, ey, radius, dx, -radius)
         IN IF found # None THEN found
            ELSE ScanDx(m, ex, ey, radius, dx + 1)

\* (mutant) the scan of line 271 stopping one radius earlier
RECURSIVE ScanRadiusShort(_, _, _, _)
ScanRadiusShort(m, ex, ey, radius) ==
    IF radius >= Max(width, height) - 1 THEN None
    ELSE LET found == ScanDx(m, ex, ey, radius, -radius)
         IN IF found # None THEN found
            ELSE ScanRadiusShort(m, ex, ey, radius + 1)

RECURSIVE ScanRadius(_, _, _, _)
ScanRadius(m, ex, ey, radius) ==
    IF radius >= Max(width, height) THEN None
    ELSE LET found == ScanDx(m, ex, ey, radius, -radius)
         IN IF found # None THEN found
            ELSE ScanRadius(m, ex, ey, radius + 1)

\* (mutant) _find_start_cell without the search: the requested cell as it is
FindStartCellAsRequested(m, ex, ey) ==
    IF ~(InRange(ey, height) /\ InRange(ex, width))
    THEN [raised |-> "IndexError", cell |-> None]
    ELSE [raised |-> NoError, cell |-> <<ex, ey>>]

\* The exception raised ("IndexError" by maze[ey][ex], "ValueError" by the
\* raise of line 279, else NoError) and the start cell <<x, y>> returned.
FindStartCell(m, ex, ey) ==
    IF ~(InRange(ey, height) /\ InRange(ex, width))
    THEN [raised |-> "IndexError", cell |-> None]
    ELSE IF ~At(m, ex, ey).is_42
    THEN [raised |-> NoError, cell |-> <<ex, ey>>]
    ELSE LET found == ScanRadius(m, ex, ey, 1)
         IN IF found = None
            THEN [raised |-> "ValueError", cell |-> None]
            ELSE [raised |-> NoError, cell |-> found]

-----------------------------------------------------------------------------
(* generate() *)

\* The 1-based coordinates a caller may pass: in the grid or up to Margin
\* outside it.
Coords == ((1 - Margin)..(width + Margin)) \X ((1 - Margin)..(height + Margin))

\* generate(), lines 102-105: the closed grid with the pattern stamped.
GenerateBody ==
    /\ maze' = AddPattern(CreateClosedMaze(width, height), width, height)
    /\ pc' = "find_start"
    /\ err' = NoError
    /\ UNCHANGED <<cfgvars, self_maze, call, stack, rngvars, spvars, iovars, runs>>

\* generate() on a generator that has not generated yet.
GenerateBegin ==
    /\ pc = "idle"
    /\ GenerateBody

\* (mutant) generate() with line 109 moved before line 106: the attribute is
\* assigned before the start is resolved and the grid carved
GenerateFindStartEager ==
    /\ pc = "find_start"
    /\ self_maze' = maze
    /\ LET r == FindStartCell(maze, entry[1] - 1, entry[2] - 1)
       IN IF r.raised # NoError
          THEN /\ err' = r.raised
               /\ pc' = "raised"
               /\ call' = None
               /\ maze' = None
          ELSE /\ call' = r.cell
               /\ pc' = "call"
               /\ UNCHANGED <<err, maze>>
    /\ UNCHANGED <<cfgvars, stack, rngvars, spvars, iovars, runs>>

\* generate(), line 106: the start cell, or the exception that ends the call.
GenerateFindStart ==
    /\ pc = "find_start"
    /\ LET r == FindStartCell(maze, entry[1] - 1, entry[2] - 1)
       IN IF r.raised # NoError
          THEN /\ err' = r.raised
               /\ pc' = "raised"
               /\ call' = None
               /\ maze' = None
          ELSE /\ call' = r.cell
               /\ pc' = "call"
               /\ UNCHANGED <<err, maze>>
    /\ UNCHANGED <<cfgvars, self_maze, stack, rngvars, spvars, iovars, runs>>

\* _backtrack, lines 255-257: mark the cell, list and shuffle its neighbours.
BacktrackEnter ==
    /\ pc = "call"
    /\ LET x == call[1]
           y == call[2]
           m == [maze EXCEPT ![Idx(y, height)][Idx(x, width)].visited = TRUE]
           neighbors == GetNeighbors(x, y, m)
       IN /\ maze' = m
          /\ \E p \in ShuffleOutcomes(rng, tape, Len(neighbors)) :
                /\ stack' = Append(stack,
                                [x |-> x, y |-> y,
                                 neighbors |-> Permute(neighbors, p),
                                 i |-> 1])
                /\ rng' = AfterShuffle(rng, Len(neighbors), p)
                /\ tape' = Observed(rng, tape, Len(neighbors), p)
    /\ pc' = "loop"
    /\ call' = None
    /\ UNCHANGED <<cfgvars, self_maze, err, spvars, iovars, runs>>

\* _backtrack, lines 259-262: one iteration of the loop over the neighbours.
BacktrackLoop ==
    /\ pc = "loop"
    /\ stack # <<>>
    /\ LET f == stack[Len(stack)]
       IN /\ f.i <= Len(f.neighbors)
          /\ LET nx == f.neighbors[f.i][1]
                 ny == f.neighbors[f.i][2]
                 direction == f.neighbors[f.i][3]
             IN /\ stack' = [stack EXCEPT ![Len(stack)].i = f.i + 1]
                /\ IF ~maze[ny][nx].visited /\ ~maze[ny][nx].is_42
                   THEN /\ maze' = OpenWall(maze, f.x, f.y, nx, ny, direction)
                        /\ call' = <<nx, ny>>
                        /\ pc' = "call"
                   ELSE UNCHANGED <<maze, call, pc>>
    /\ UNCHANGED <<cfgvars, self_maze, err, rngvars, spvars, iovars, runs>>

\* _backtrack returns; the outermost return ends generate(), lines 109-110.
BacktrackReturn ==
    /\ pc = "loop"
    /\ stack # <<>>
    /\ stack[Len(stack)].i > Len(stack[Len(stack)].neighbors)
    /\ stack' = SubSeq(stack, 1, Len(stack) - 1)
    /\ IF Len(stack) = 1
       THEN /\ self_maze' = maze
            /\ pc' = "generated"
       ELSE UNCHANGED <<self_maze, pc>>
    /\ UNCHANGED <<cfgvars, maze, call, err, rngvars, spvars, iovars, runs>>

-----------------------------------------------------------------------------
(* shortest_path() *)

\* (mutant) _process_neighbor without line 296: the neighbour is enqueued
\* but not marked as visited
ProcessNeighborNoMark(q, y, x, ny, nx, cw, nw, direction) ==
    IF self_maze = None THEN q
    ELSE LET current_cell == self_maze[y][x]
             neighbor == self_maze[ny][nx]
         IN IF /\ GetWall(current_cell, cw)
               /\ GetWall(neighbor, nw)
               /\ ~neighbor.is_42
               /\ ~q.visited[ny][nx]
            THEN [visited |-> q.visited,
                  prev |-> [k \in DOMAIN q.prev \cup {<<ny, nx>>} |->
                               IF k = <<ny, nx>> THEN <<<<y, x>>, direction>>
                               ELSE q.prev[k]],
                  queue |-> Append(q.queue, <<ny, nx>>)]
            ELSE q

\* _process_neighbor: q is the search state [visited, prev, queue].
ProcessNeighbor(q, y, x, ny, nx, cw, nw, direction) ==
    IF self_maze = None THEN q
    ELSE LET current_cell == self_maze[y][x]
             neighbor == self_maze[ny][nx]
         IN IF /\ GetWall(current_cell, cw)
               /\ GetWall(neighbor, nw)
               /\ ~neighbor.is_42
               /\ ~q.visited[ny][nx]
            THEN [visited |-> [q.visited EXCEPT ![ny][nx] = TRUE],
                  prev |-> [k \in DOMAIN q.prev \cup {<<ny, nx>>} |->
                               IF k = <<ny, nx>> THEN <<<<y, x>>, direction>>
                               ELSE q.prev[k]],
                  queue |-> Append(q.queue, <<ny, nx>>)]
            ELSE q

\* (mutant) the list of lines 148-153 with the west neighbour replaced by a
\* second east neighbour
BfsNeighborsNoWest(y, x) ==
    << <<y - 1, x, "n", "s", "N">>,
       <<y + 1, x, "s", "n", "S">>,
       <<y, x + 1, "e", "w", "E">>,
       <<y, x + 1, "e", "w", "E">> >>

\* shortest_path, lines 148-153: the neighbours in the order examined.
BfsNeighbors(y, x) ==
    << <<y - 1, x, "n", "s", "N">>,
       <<y + 1, x, "s", "n", "S">>,
       <<y, x + 1, "e", "w", "E">>,
       <<y, x - 1, "w", "e", "W">> >>

\* shortest_path, lines 155-158: the for loop over the neighbours from k on.
RECURSIVE ForNeighbors(_, _, _, _)
ForNeighbors(q, y, x, k) ==
    IF k > 4 THEN q
    ELSE LET nb == BfsNeighbors(y, x)[k]
             ny == nb[1]
             nx == nb[2]
         IN IF 0 <= ny /\ ny < height /\ 0 <= nx /\ nx < width
            THEN ForNeighbors(
                     ProcessNeighbor(q, y, x, ny, nx, nb[3], nb[4], nb[5]),
                     y, x, k + 1)
            ELSE ForNeighbors(q, y, x, k + 1)

\* (mutant) shortest_path without line 170, path.reverse()
NotReversed(seq) == seq

Reverse(seq) == [i \in 1..Len(seq) |-> seq[Len(seq) + 1 - i]]

\* shortest_path, lines 163-168: the directions from the exit back to the
\* entry, in the order they are appended.
RECURSIVE WalkBack(_, _, _)
WalkBack(pv, current, first) ==
    IF current = first THEN <<>>
    ELSE <<pv[current][2]>> \o WalkBack(pv, pv[current][1], first)

\* (mutant) shortest_path with lines 133-136 replaced by clamping of the
\* coordinates into the grid
ShortestPathCallClamped ==
    /\ pc \in {"idle", "generated"}
    /\ \E c \in Coords :
        /\ exit_' = c
        /\ LET Clamp(i, n) == IF i < 0 THEN 0 ELSE IF i >= n THEN n - 1 ELSE i
               ex == Clamp(entry[1] - 1, width)
               ey == Clamp(entry[2] - 1, height)
           IN IF self_maze = None
              THEN /\ err' = "ValueError"
                   /\ pc' = "raised"
                   /\ UNCHANGED <<visited, prev, queue>>
              ELSE /\ visited' = [[y \in 0..(height - 1) |->
                                     [x \in 0..(width - 1) |-> FALSE]]
                                     EXCEPT ![ey][ex] = TRUE]
                   /\ prev' = <<>>
                   /\ queue' = << <<ey, ex>> >>
                   /\ pc' = "bfs"
                   /\ err' = err
    /\ UNCHANGED <<genvars, path, iovars, runs>>

\* shortest_path, lines 127-141: the checks and the start of the search.
ShortestPathCall ==
    /\ pc \in {"idle", "generated"}
    /\ \E c \in Coords :
        /\ exit_' = c
        /\ LET ex == entry[1] - 1
               ey == entry[2] - 1
               fx == c[1] - 1
               fy == c[2] - 1
           IN IF self_maze = None
                 \/ ~(0 <= ex /\ ex < width /\ 0 <= ey /\ ey < height)
                 \/ ~(0 <= fx /\ fx < width /\ 0 <= fy /\ fy < height)
              THEN /\ err' = "ValueError"
                   /\ pc' = "raised"
                   /\ UNCHANGED <<visited, prev, queue>>
              ELSE /\ visited' = [[y \in 0..(height - 1) |->
                                     [x \in 0..(width - 1) |-> FALSE]]
                                     EXCEPT ![ey][ex] = TRUE]
                   /\ prev' = <<>>
                   /\ queue' = << <<ey, ex>> >>
                   /\ pc' = "bfs"
                   /\ err' = err
    /\ UNCHANGED <<genvars, path, iovars, runs>>

\* shortest_path, lines 143-158: one iteration of the while loop.
BfsStep ==
    /\ pc = "bfs"
    /\ queue # <<>>
    /\ LET y == Head(queue)[1]
           x == Head(queue)[2]
       IN IF y = exit_[2] - 1 /\ x = exit_[1] - 1
          THEN /\ queue' = Tail(queue)
               /\ pc' = "rebuild"
               /\ UNCHANGED <<visited, prev>>
          ELSE LET q == ForNeighbors([visited |-> visited, prev |-> prev,
                                      queue |-> Tail(queue)], y, x, 1)
               IN /\ visited' = q.visited
                  /\ prev' = q.prev
                  /\ queue' = q.queue
                  /\ pc' = pc
    /\ UNCHANGED <<genvars, err, exit_, path, iovars, runs>>

\* shortest_path, lines 160-171: after the loop, the string returned.
ShortestPathReturn ==
    /\ pc = "rebuild" \/ (pc = "bfs" /\ queue = <<>>)
    /\ LET ex == entry[1] - 1
           ey == entry[2] - 1
           fx == exit_[1] - 1
           fy == exit_[2] - 1
       IN path' = IF ~visited[fy][fx] THEN <<>>
                  ELSE Reverse(WalkBack(prev, <<fy, fx>>, <<ey, ex>>))
    /\ pc' = "path_done"
    /\ UNCHANGED <<genvars, err, exit_, visited, prev, queue, iovars, runs>>

-----------------------------------------------------------------------------
(* Codec: encoding *)

HexDigits ==
    <<"0", "1", "2", "3", "4", "5", "6", "7",
      "8", "9", "A", "B", "C", "D", "E", "F">>

\* a | b on non-negative integers
RECURSIVE BitOr(_, _)
BitOr(a, b) ==
    IF a = 0 THEN b
    ELSE IF b = 0 THEN a
    ELSE Max(a % 2, b % 2) + 2 * BitOr(a \div 2, b \div 2)

\* format(value, "X")
RECURSIVE FormatX(_)
FormatX(value) ==
    IF value < 16 THEN <<HexDigits[value + 1]>>
    ELSE FormatX(value \div 16) \o <<HexDigits[(value % 16) + 1]>>

\* (mutant) _cell_to_hex with the masks of east and south exchanged
CellToHexSwapped(cell) ==
    LET v0 == 0
        v1 == IF ~cell.n THEN BitOr(v0, 1) ELSE v0
        v2 == IF ~cell.e THEN BitOr(v1, 4) ELSE v1
        v3 == IF ~cell.s THEN BitOr(v2, 2) ELSE v2
        v4 == IF ~cell.w THEN BitOr(v3, 8) ELSE v3
    IN FormatX(v4)

\* _cell_to_hex
CellToHex(cell) ==
    LET v0 == 0
        v1 == IF ~cell.n THEN BitOr(v0, 1) ELSE v0
        v2 == IF ~cell.e THEN BitOr(v1, 2) ELSE v1
        v3 == IF ~cell.s THEN BitOr(v2, 4) ELSE v2
        v4 == IF ~cell.w THEN BitOr(v3, 8) ELSE v3
    IN FormatX(v4)

\* sep.join(strs)
RECURSIVE Join(_, _)
Join(strs, sep) ==
    IF Len(strs) = 0 THEN <<>>
    ELSE IF Len(strs) = 1 THEN strs[1]
    ELSE strs[1] \o sep \o Join(Tail(strs), sep)

\* to_hex_matrix, lines 195-196: one string per row, one digit per cell.
ToHexMatrix(m) ==
    [r \in 1..height |->
        Join([c \in 1..width |-> CellToHex(m[r - 1][c - 1])], <<>>)]

\* str(n) for an integer, as an f-string formats it
DecDigits == <<"0", "1", "2", "3", "4", "5", "6", "7", "8", "9">>

RECURSIVE NatToStr(_)
NatToStr(n) ==
    IF n < 10 THEN <<DecDigits[n + 1]>>
    ELSE NatToStr(n \div 10) \o <<DecDigits[(n % 10) + 1]>>

IntToStr(n) == IF n < 0 THEN <<"-">> \o NatToStr(-n) ELSE NatToStr(n)

\* write_output_file, lines 257-268: the text written.
OutputText(m, entry_, exit__, path_) ==
    LET hex_rows == ToHexMatrix(m)
        content_parts ==
            << Join(hex_rows, <<"\n">>),
               <<>>,
               IntToStr(entry_[1]) \o <<",">> \o IntToStr(entry_[2]),
               IntToStr(exit__[1]) \o <<",">> \o IntToStr(exit__[2]),
               path_,
               <<>> >>
    IN Join(content_parts, <<"\n">>)

-----------------------------------------------------------------------------
(* Codec: decoding *)

Whitespace == {" ", "\n", "\t", "\r"}

\* str.strip()
RECURSIVE LStrip(_)
LStrip(str) ==
    IF str # <<>> /\ Head(str) \in Whitespace THEN LStrip(Tail(str)) ELSE str

Strip(str) == Reverse(LStrip(Reverse(LStrip(str))))

\* file.readlines() without the line ends: the text cut at every "\n"
\* (a text that ends in "\n" has no further line after it).
RECURSIVE ReadLines(_, _)
ReadLines(text, line) ==
    IF text = <<>> THEN (IF line = <<>> THEN <<>> ELSE <<line>>)
    ELSE IF Head(text) = "\n" THEN <<line>> \o ReadLines(Tail(text), <<>>)
    ELSE ReadLines(Tail(text), Append(line, Head(text)))

RECURSIVE StripNonEmpty(_)
StripNonEmpty(lines) ==
    IF lines = <<>> THEN <<>>
    ELSE IF Strip(Head(lines)) # <<>>
         THEN <<Strip(Head(lines))>> \o StripNonEmpty(Tail(lines))
         ELSE StripNonEmpty(Tail(lines))

\* read_file_lines, line 97
ReadFileLines(text) == StripNonEmpty(ReadLines(text, <<>>))

HexChars ==
    {"0", "1", "2", "3", "4", "5", "6", "7", "8", "9",
     "A", "B", "C", "D", "E", "F", "a", "b", "c", "d", "e", "f"}

\* str.upper() on one character
Upper(c) ==
    CASE c = "a" -> "A" [] c = "b" -> "B" [] c = "c" -> "C" [] c = "d" -> "D"
      [] c = "e" -> "E" [] c = "f" -> "F" [] c = "n" -> "N" [] c = "s" -> "S"
      [] c = "w" -> "W" [] c = "x" -> "X"
      [] OTHER -> c

Chars(str) == {str[i] : i \in 1..Len(str)}

\* re.fullmatch(r'[0-9A-Fa-f]+', line)
IsHexLine(line) == line # <<>> /\ Chars(line) \subseteq HexChars

\* ',' in line
HasComma(line) == "," \in Chars(line)

\* any(c in line.upper() for c in 'NSEW')
HasDirection(line) == \E c \in Chars(line) : Upper(c) \in {"N", "S", "E", "W"}

\* parse_maze_file, lines 339-347: the classification of the lines from k on.
RECURSIVE Classify(_, _, _)
Classify(lines, k, acc) ==
    IF k > Len(lines) THEN acc
    ELSE LET line == lines[k]
         IN Classify(lines, k + 1,
                IF IsHexLine(line)
                THEN [acc EXCEPT !.hex_lines = Append(@, line)]
                ELSE IF HasComma(line) /\ acc.entry_line = None
                THEN [acc EXCEPT !.entry_line = line]
                ELSE IF HasComma(line) /\ acc.exit_line = None
                THEN [acc EXCEPT !.exit_line = line]
                ELSE IF HasDirection(line)
                THEN [acc EXCEPT !.path_line = line]
                ELSE acc)

\* (mutant) normalize_hex_line without lines 306-307: short rows stay short
NormalizeHexLineNoPad(line, w) ==
    IF Len(line) > w
    THEN SubSeq(line, 1, w)
    ELSE line

\* normalize_hex_line
NormalizeHexLine(line, w) ==
    IF Len(line) < w
    THEN line \o [i \in 1..(w - Len(line)) |-> "0"]
    ELSE IF Len(line) > w
    THEN SubSeq(line, 1, w)
    ELSE line

\* str.split(sep) for a one-character separator
RECURSIVE Split(_, _, _)
Split(str, sep, part) ==
    IF str = <<>> THEN <<part>>
    ELSE IF Head(str) = sep THEN <<part>> \o Split(Tail(str), sep, <<>>)
    ELSE Split(Tail(str), sep, Append(part, Head(str)))

\* str.replace(' ', '')
RECURSIVE RemoveSpaces(_)
RemoveSpaces(str) ==
    IF str = <<>> THEN <<>>
    ELSE IF Head(str) = " " THEN RemoveSpaces(Tail(str))
    ELSE <<Head(str)>> \o RemoveSpaces(Tail(str))

DigitValue(c) == CHOOSE d \in 0..9 : DecDigits[d + 1] = c

RECURSIVE StrToNat(_, _)
StrToNat(str, value) ==
    IF str = <<>> THEN value
    ELSE StrToNat(Tail(str), 10 * value + DigitValue(Head(str)))

\* int(str): [ok |-> FALSE] stands for ValueError
ParseInt(str) ==
    LET t == Strip(str)
        signed == t # <<>> /\ Head(t) \in {"-", "+"}
        digits == IF signed THEN Tail(t) ELSE t
    IN IF digits = <<>> \/ ~(Chars(digits) \subseteq Chars(DecDigits))
       THEN [ok |-> FALSE, value |-> 0]
       ELSE [ok |-> TRUE,
             value |-> IF signed /\ Head(t) = "-"
                       THEN -StrToNat(digits, 0) ELSE StrToNat(digits, 0)]

\* parse_maze_coordinate
ParseMazeCoordinate(line, default) ==
    LET parts == Split(RemoveSpaces(line), ",", <<>>)
    IN IF Len(parts) < 2 THEN default
       ELSE LET a == ParseInt(parts[1])
                b == ParseInt(parts[2])
            IN IF a.ok /\ b.ok THEN <<a.value, b.value>> ELSE default

\* the characters of the path line that are direction letters, upper-cased
RECURSIVE ExtractPath(_)
ExtractPath(line) ==
    IF line = <<>> THEN <<>>
    ELSE IF Upper(Head(line)) \in {"N", "S", "E", "W"}
         THEN <<Upper(Head(line))>> \o ExtractPath(Tail(line))
         ELSE ExtractPath(Tail(line))

\* parse_maze_file: the tuple returned, or the ValueError raised.
ParseMazeFile(text) ==
    LET lines == ReadFileLines(text)
        acc == Classify(lines, 1,
                        [hex_lines |-> <<>>, entry_line |-> None,
                         exit_line |-> None, path_line |-> None])
    IN IF lines = <<>> \/ acc.hex_lines = <<>>
       THEN [raised |-> "ValueError"]
       ELSE LET w == Len(acc.hex_lines[1])
                h == Len(acc.hex_lines)
            IN [raised |-> NoError,
                hex_lines |-> [i \in 1..h |->
                                  NormalizeHexLine(acc.hex_lines[i], w)],
                width |-> w,
                height |-> h,
                entry |-> IF acc.entry_line # None
                          THEN ParseMazeCoordinate(acc.entry_line, <<1, 1>>)
                          ELSE <<1, 1>>,
                exit |-> IF acc.exit_line # None
                         THEN ParseMazeCoordinate(acc.exit_line, <<w, h>>)
                         ELSE <<w, h>>,
                path |-> IF acc.path_line # None
                         THEN ExtractPath(acc.path_line) ELSE <<>>]

\* generate_maze, lines 829-835: write_output_file with the configured
\* entry and exit and the path found.
WriteOutputFile ==
    /\ pc = "path_done"
    /\ content' = OutputText(self_maze, entry, exit_, path)
    /\ runs' = Append(runs, [width |-> width, height |-> height, seed |-> seed,
                             entry |-> entry, exit |-> exit_,
                             hex |-> ToHexMatrix(self_maze), path |-> path,
                             content |-> OutputText(self_maze, entry, exit_, path)])
    /\ hex_matrix' = ToHexMatrix(self_maze)
    /\ pc' = "written"
    /\ UNCHANGED <<genvars, err, spvars, parsed>>

\* see_maze, lines 849-850: parse_maze_file on the file just written.
SeeMaze ==
    /\ pc = "written"
    /\ parsed' = ParseMazeFile(content)
    /\ pc' = "parsed"
    /\ UNCHANGED <<genvars, err, spvars, hex_matrix, content, runs>>

-----------------------------------------------------------------------------
(* The generator on small grids and on the smallest grids with the pattern *)

Dims == {d \in (1..MaxCells) \X (1..MaxCells) : d[1] * d[2] <= MaxCells}
            \cup {<<PATTERN_WIDTH + k, PATTERN_HEIGHT>> : k \in 0..ExtraW}

Init ==
    /\ \E d \in Dims : width = d[1] /\ height = d[2]
    /\ entry \in Coords
    /\ seed = None
    /\ self_maze = None
    /\ maze = None
    /\ call = None
    /\ stack = <<>>
    /\ pc = "idle"
    /\ err = NoError
    /\ exit_ = None
    /\ visited = None
    /\ prev = None
    /\ queue = <<>>
    /\ path = None
    /\ hex_matrix = None
    /\ content = None
    /\ parsed = None
    /\ rng = Seeded(None)
    /\ tape = {}
    /\ runs = <<>>

Next ==
    \/ GenerateBegin
    \/ GenerateFindStart
    \/ BacktrackEnter
    \/ BacktrackLoop
    \/ BacktrackReturn
    \/ ShortestPathCall
    \/ BfsStep
    \/ ShortestPathReturn
    \/ WriteOutputFile
    \/ SeeMaze

vars == <<genvars, pc, err, spvars, iovars, runs>>

Spec == Init /\ [][Next]_vars

\* The steps inside a generate() call and inside a shortest_path() call.
Carving == GenerateFindStart \/ BacktrackEnter \/ BacktrackLoop \/ BacktrackReturn
Searching == BfsStep \/ ShortestPathReturn

\* The same program under the assumption that a call in progress keeps
\* running: the interpreter executes its next step as long as it has one.
InitFair ==
    /\ Init
    /\ width * height <= MaxFairCells \/ width = PATTERN_WIDTH

SpecFair == InitFair /\ [][Next]_vars /\ WF_vars(Carving) /\ WF_vars(Searching)

-----------------------------------------------------------------------------
(* The grid builder and the start resolution on larger grids *)

InitBuild ==
    /\ width \in 1..MaxBuildW
    /\ height \in 1..MaxBuildH
    /\ entry \in Coords
    /\ seed = None
    /\ self_maze = None
    /\ maze = None
    /\ call = None
    /\ stack = <<>>
    /\ pc = "idle"
    /\ err = NoError
    /\ exit_ = None
    /\ visited = None
    /\ prev = None
    /\ queue = <<>>
    /\ path = None
    /\ hex_matrix = None
    /\ content = None
    /\ parsed = None
    /\ rng = Seeded(None)
    /\ tape = {}
    /\ runs = <<>>

NextBuild ==
    \/ GenerateBegin
    \/ GenerateFindStart

SpecBuild == InitBuild /\ [][NextBuild]_vars

-----------------------------------------------------------------------------
(* shortest_path() on any grid whose walls are symmetric *)

\* The grid with the cells of R reserved and exactly the passages E open;
\* E holds <<cell, "S">> and <<cell, "E">>.
GridOf(R, E) ==
    [y \in 0..(height - 1) |-> [x \in 0..(width - 1) |->
        [NewCell(x, y) EXCEPT
            !.is_42 = <<y, x>> \in R,
            !.s = <<<<y, x>>, "S">> \in E,
            !.e = <<<<y, x>>, "E">> \in E,
            !.n = <<<<y - 1, x>>, "S">> \in E,
            !.w = <<<<y, x - 1>>, "E">> \in E]]]

\* The walls between two cells outside R.
InnerWalls(R) ==
    {e \in ((0..(height - 1)) \X (0..(width - 1))) \X {"S", "E"} :
        /\ e[1] \notin R
        /\ IF e[2] = "S"
           THEN e[1][1] + 1 < height /\ <<e[1][1] + 1, e[1][2]>> \notin R
           ELSE e[1][2] + 1 < width /\ <<e[1][1], e[1][2] + 1>> \notin R}

InitPath ==
    /\ \E d \in (1..MaxPathCells) \X (1..MaxPathCells) :
          /\ d[1] * d[2] <= MaxPathCells
          /\ width = d[1]
          /\ height = d[2]
    /\ entry \in Coords
    /\ \E R \in SUBSET ((0..(height - 1)) \X (0..(width - 1))) :
          \E E \in SUBSET InnerWalls(R) :
              self_maze = GridOf(R, E)
    /\ maze = self_maze
    /\ seed = None
    /\ call = None
    /\ stack = <<>>
    /\ pc = "generated"
    /\ err = NoError
    /\ exit_ = None
    /\ visited = None
    /\ prev = None
    /\ queue = <<>>
    /\ path = None
    /\ hex_matrix = None
    /\ content = None
    /\ parsed = None
    /\ rng = Seeded(None)
    /\ tape = {}
    /\ runs = <<>>

NextPath ==
    \/ ShortestPathCall
    \/ BfsStep
    \/ ShortestPathReturn

SpecPath == InitPath /\ [][NextPath]_vars

-----------------------------------------------------------------------------
(* to_hex_matrix() on any grid *)

WallFlags == [n : BOOLEAN, s : BOOLEAN, e : BOOLEAN, w : BOOLEAN]

InitHex ==
    /\ \E d \in (1..MaxHexCells) \X (1..MaxHexCells) :
          /\ d[1] * d[2] <= MaxHexCells
          /\ width = d[1]
          /\ height = d[2]
    /\ entry = <<1, 1>>
    /\ \E f \in [(0..(height - 1)) \X (0..(width - 1)) -> WallFlags] :
          self_maze = [y \in 0..(height - 1) |-> [x \in 0..(width - 1) |->
                          [NewCell(x, y) EXCEPT !.n = f[<<y, x>>].n,
                                                !.s = f[<<y, x>>].s,
                                                !.e = f[<<y, x>>].e,
                                                !.w = f[<<y, x>>].w]]]
    /\ maze = self_maze
    /\ seed = None
    /\ call = None
    /\ stack = <<>>
    /\ pc = "generated"
    /\ err = NoError
    /\ exit_ = None
    /\ visited = None
    /\ prev = None
    /\ queue = <<>>
    /\ path = None
    /\ hex_matrix = None
    /\ content = None
    /\ parsed = None
    /\ rng = Seeded(None)
    /\ tape = {}
    /\ runs = <<>>

\* to_hex_matrix()
ToHexMatrixCall ==
    /\ pc \in {"idle", "generated"}
    /\ IF self_maze = None
       THEN /\ err' = "ValueError"
            /\ pc' = "raised"
            /\ UNCHANGED hex_matrix
       ELSE /\ hex_matrix' = ToHexMatrix(self_maze)
            /\ pc' = "hex_done"
            /\ UNCHANGED err
    /\ UNCHANGED <<genvars, spvars, content, parsed, runs>>

NextHex == ToHexMatrixCall

SpecHex == InitHex /\ [][NextHex]_vars

-----------------------------------------------------------------------------
(* Seeded generators and repeated generation requests *)

InitDet ==
    /\ width \in 1..MaxDetSide
    /\ height \in 1..MaxDetSide
    /\ entry \in Coords
    /\ \E sd \in 1..MaxSeed : seed = <<sd>>
    /\ rng = Seeded(seed)
    /\ self_maze = None
    /\ maze = None
    /\ call = None
    /\ stack = <<>>
    /\ pc = "idle"
    /\ err = NoError
    /\ exit_ = None
    /\ visited = None
    /\ prev = None
    /\ queue = <<>>
    /\ path = None
    /\ hex_matrix = None
    /\ content = None
    /\ parsed = None
    /\ tape = {}
    /\ runs = <<>>

\* generate_maze, lines 808-813, on a further request (key 1): a new
\* MazeGenerator from the same configuration file; its constructor seeds
\* the random module again.
Construct ==
    /\ pc = "parsed"
    /\ Len(runs) < MaxRuns
    /\ self_maze' = None
    /\ rng' = IF seed # None THEN Seeded(seed) ELSE rng
    /\ maze' = None
    /\ pc' = "idle"
    /\ exit_' = None
    /\ visited' = None
    /\ prev' = None
    /\ queue' = <<>>
    /\ path' = None
    /\ UNCHANGED <<cfgvars, call, stack, tape, err, iovars, runs>>

\* generate() once more on the generator that has already generated.
GenerateAgain ==
    /\ pc = "parsed"
    /\ Len(runs) < MaxRuns
    /\ GenerateBody

NextDet ==
    \/ Next
    \/ Construct
    \/ GenerateAgain

SpecDet == InitDet /\ [][NextDet]_vars

-----------------------------------------------------------------------------
(* _find_start_cell on any grid, with any set of reserved cells *)

InitStart ==
    /\ \E d \in (1..MaxStartCells) \X (1..MaxStartCells) :
          /\ d[1] * d[2] <= MaxStartCells
          /\ width = d[1]
          /\ height = d[2]
    /\ entry \in Coords
    /\ \E R \in SUBSET ((0..(height - 1)) \X (0..(width - 1))) :
          maze = GridOf(R, {})
    /\ self_maze = None
    /\ seed = None
    /\ call = None
    /\ stack = <<>>
    /\ pc = "find_start"
    /\ err = NoError
    /\ exit_ = None
    /\ visited = None
    /\ prev = None
    /\ queue = <<>>
    /\ path = None
    /\ hex_matrix = None
    /\ content = None
    /\ parsed = None
    /\ rng = Seeded(None)
    /\ tape = {}
    /\ runs = <<>>

NextStart == GenerateFindStart

SpecStart == InitStart /\ [][NextStart]_vars

-----------------------------------------------------------------------------
(* Any sequence of calls on one generator *)

InitCalls ==
    /\ \E d \in (1..MaxCallCells) \X (1..MaxCallCells) :
          /\ d[1] * d[2] <= MaxCallCells
          /\ width = d[1]
          /\ height = d[2]
    /\ entry \in Coords
    /\ seed = None
    /\ self_maze = None
    /\ maze = None
    /\ call = None
    /\ stack = <<>>
    /\ pc = "idle"
    /\ err = NoError
    /\ exit_ = None
    /\ visited = None
    /\ prev = None
    /\ queue = <<>>
    /\ path = None
    /\ hex_matrix = None
    /\ content = None
    /\ parsed = None
    /\ rng = Seeded(None)
    /\ tape = {}
    /\ runs = <<>>

\* generate(entry, exit_) with any entry, on a generator that may have
\* generated before.
GenerateCall ==
    /\ pc \in {"idle", "generated"}
    /\ entry' \in Coords
    /\ maze' = AddPattern(CreateClosedMaze(width, height), width, height)
    /\ pc' = "find_start"
    /\ err' = NoError
    /\ UNCHANGED <<width, height, seed, self_maze, call, stack, rngvars,
                   spvars, iovars, runs>>

\* The caller goes on after a call has returned or raised: the locals and
\* the returned values of the finished call are gone.
Resume ==
    /\ pc \in {"raised", "path_done", "hex_done"}
    /\ pc' = IF self_maze = None THEN "idle" ELSE "generated"
    /\ err' = NoError
    /\ maze' = None
    /\ exit_' = None
    /\ visited' = None
    /\ prev' = None
    /\ queue' = <<>>
    /\ path' = None
    /\ hex_matrix' = None
    /\ UNCHANGED <<cfgvars, self_maze, call, stack, rngvars, content, parsed, runs>>

NextCalls ==
    \/ GenerateCall
    \/ GenerateFindStart
    \/ BacktrackEnter
    \/ BacktrackLoop
    \/ BacktrackReturn
    \/ ShortestPathCall
    \/ BfsStep
    \/ ShortestPathReturn
    \/ ToHexMatrixCall
    \/ Resume

SpecCalls == InitCalls /\ [][NextCalls]_vars

-----------------------------------------------------------------------------
(* parse_maze_file() on any file made of a few kinds of lines *)

\* Lines a maze file may hold: hex rows of one and three digits, coordinate
\* lines (plain, with a blank, not a number), a path line, lines of other
\* text with and without a direction letter, and the empty line.
FileLines ==
    { <<"5">>, <<"3">>, <<"1", "b", "E">>,
      <<"2", ",", "1">>, <<"1", ",", " ", "2">>, <<"x", ",", "1">>,
      <<"n", "E">>,
      <<"#">>, <<"x", "S">>,
      <<>> }

\* The text of a file with the given lines, each ended by a newline.
RECURSIVE FileText(_)
FileText(lines) ==
    IF lines = <<>> THEN <<>>
    ELSE Head(lines) \o <<"\n">> \o FileText(Tail(lines))

InitParse ==
    /\ \E n \in 0..MaxFileLines :
          \E lines \in [1..n -> FileLines] : content = FileText(lines)
    /\ pc = "written"
    /\ width = 1
    /\ height = 1
    /\ entry = <<1, 1>>
    /\ seed = None
    /\ self_maze = None
    /\ maze = None
    /\ call = None
    /\ stack = <<>>
    /\ err = NoError
    /\ exit_ = None
    /\ visited = None
    /\ prev = None
    /\ queue = <<>>
    /\ path = None
    /\ hex_matrix = None
    /\ parsed = None
    /\ rng = Seeded(None)
    /\ tape = {}
    /\ runs = <<>>

NextParse == SeeMaze

SpecParse == InitParse /\ [][NextParse]_vars

-----------------------------------------------------------------------------
(* Properties: vocabulary *)

Cells == (0..(height - 1)) \X (0..(width - 1))
Dirs == {"N", "S", "E", "W"}

\* The cell <<y, x>> next to c in direction d (possibly outside the grid).
Toward(c, d) ==
    CASE d = "N" -> <<c[1] - 1, c[2]>>
      [] d = "S" -> <<c[1] + 1, c[2]>>
      [] d = "E" -> <<c[1], c[2] + 1>>
      [] d = "W" -> <<c[1], c[2] - 1>>

Opposite(d) ==
    CASE d = "N" -> "S" [] d = "S" -> "N" [] d = "E" -> "W" [] d = "W" -> "E"

\* The wall-open flag of cell c toward d.
Flag(m, c, d) ==
    CASE d = "N" -> m[c[1]][c[2]].n
      [] d = "S" -> m[c[1]][c[2]].s
      [] d = "E" -> m[c[1]][c[2]].e
      [] d = "W" -> m[c[1]][c[2]].w

Reserved(m) == {c \in Cells : m[c[1]][c[2]].is_42}
Free(m) == Cells \ Reserved(m)
VisitedCells(m) == {c \in Cells : m[c[1]][c[2]].visited}

\* b is next to a and the wall between them is open on both sides.
Passage(m, a, b) ==
    \E d \in Dirs : /\ Toward(a, d) = b
                     /\ b \in Cells
                     /\ Flag(m, a, d)
                     /\ Flag(m, b, Opposite(d))

\* The cells reachable from S through passages.
RECURSIVE ReachOpen(_, _)
ReachOpen(m, S) ==
    LET T == S \cup {b \in Cells : \E a \in S : Passage(m, a, b)}
    IN IF T = S THEN S ELSE ReachOpen(m, T)

\* The non-reserved cells reachable from S by grid adjacency through
\* non-reserved cells.
RECURSIVE ReachFree(_, _)
ReachFree(m, S) ==
    LET T == S \cup {b \in Free(m) :
                        \E a \in S, d \in Dirs : Toward(a, d) = b}
    IN IF T = S THEN S ELSE ReachFree(m, T)

\* The passages, each counted once, and the open flags, one per cell side.
OpenEdges(m) ==
    {e \in Cells \X {"S", "E"} : Passage(m, e[1], Toward(e[1], e[2]))}
OpenFlags(m) == {f \in Cells \X Dirs : Flag(m, f[1], f[2])}

EntryInGrid == entry[1] \in 1..width /\ entry[2] \in 1..height

\* The cell <<y, x>> generate() started carving from.
StartCell ==
    LET r == FindStartCell(self_maze, entry[1] - 1, entry[2] - 1)
    IN <<r.cell[2], r.cell[1]>>

Stamped == AddPattern(CreateClosedMaze(width, height), width, height)

-----------------------------------------------------------------------------
(* Properties of the carver *)

\* C1: after generate() with an in-bounds entry every non-reserved cell is
\* reachable from every other non-reserved cell through open walls.
AllNonReservedConnected ==
    (self_maze # None /\ EntryInGrid) =>
        \A a \in Free(self_maze) :
            Free(self_maze) \subseteq ReachOpen(self_maze, {a})

\* C2: after _backtrack has finished from a start cell s of the grid, the
\* visited cells are exactly the non-reserved cells reachable from s by grid
\* adjacency through non-reserved cells, and the open walls form a tree on
\* them: they connect all visited cells with (visited cells - 1) passages,
\* and no wall is open anywhere else.
BacktrackSpanningTree ==
    (pc = "generated" /\ EntryInGrid) =>
        LET V == VisitedCells(self_maze)
        IN /\ V = ReachFree(self_maze, {StartCell})
           /\ V = ReachOpen(self_maze, {StartCell})
           /\ Cardinality(OpenEdges(self_maze)) = Cardinality(V) - 1
           /\ Cardinality(OpenFlags(self_maze)) = 2 * (Cardinality(V) - 1)

\* C2's case: a grid with the pattern, carved into a tree of several cells
\* that the reserved cells keep from covering all non-reserved cells.
BacktrackSpanningTreeWitness ==
    /\ pc = "generated"
    /\ EntryInGrid
    /\ Reserved(self_maze) # {}
    /\ Cardinality(VisitedCells(self_maze)) >= 5
    /\ VisitedCells(self_maze) # Free(self_maze)

\* Every cell agrees with the cell below it and with the cell to its right
\* on the wall between them.
SymmetricWalls(m) ==
    \A y \in 0..(height - 1), x \in 0..(width - 1) :
        /\ y + 1 < height => m[y][x].s = m[y + 1][x].n
        /\ x + 1 < width => m[y][x].e = m[y][x + 1].w

\* C3: in every state during and after carving, for every pair of adjacent
\* cells A and B, A's open flag toward B equals B's open flag toward A.
WallSymmetry ==
    /\ maze # None => SymmetricWalls(maze)
    /\ self_maze # None => SymmetricWalls(self_maze)

\* C3's case: _open_wall has just acted, deep in the recursion.
WallSymmetryWitness ==
    /\ pc = "call"
    /\ Len(stack) >= 3
    /\ OpenFlags(maze) # {}

ReservedClosed(m) ==
    LET stamped == PatternCells(width, height)
    IN \A y \in 0..(height - 1), x \in 0..(width - 1) :
          /\ m[y][x].is_42 = (<<y, x>> \in stamped)
          /\ m[y][x].is_42 =>
                /\ ~m[y][x].n /\ ~m[y][x].s /\ ~m[y][x].e /\ ~m[y][x].w
                /\ ~m[y][x].visited

\* C4: from the stamping of the pattern to the end of carving every reserved
\* cell has its four walls closed and is not visited, the set of reserved
\* cells is the stamped one, and shortest_path enqueues no reserved cell as
\* a neighbour.
ReservedUntouched ==
    /\ \A m \in {maze, self_maze} \ {None} : ReservedClosed(m)
    /\ \A k \in DOMAIN prev : ~self_maze[k[1]][k[2]].is_42
    /\ \A i \in 2..Len(queue) : ~self_maze[queue[i][1]][queue[i][2]].is_42

\* C4's cases: carving next to the pattern from a reserved entry, and a
\* search that went past reserved cells.
ReservedUntouchedWitness ==
    /\ Reserved(Stamped) # {}
    /\ pc = "path_done"
    /\ Len(path) >= 3
    /\ \E d \in Dirs : Toward(<<exit_[2] - 1, exit_[1] - 1>>, d) \in Reserved(Stamped)

\* C10: for W=7, H=5 the pattern is stamped at offset (0,0), 21 cells are
\* reserved and 14 are not, and carving from any in-bounds entry connects
\* all non-reserved cells.
Scenario7x5 ==
    (width = 7 /\ height = 5 /\ self_maze # None /\ EntryInGrid) =>
        /\ Cardinality(Reserved(self_maze)) = 21
        /\ Cardinality(Free(self_maze)) = 14
        /\ \A a \in Free(self_maze) :
              Free(self_maze) \subseteq ReachOpen(self_maze, {a})


-----------------------------------------------------------------------------
(* Properties of the path finder *)

EntryCell == <<entry[2] - 1, entry[1] - 1>>
ExitCell == <<exit_[2] - 1, exit_[1] - 1>>

\* Following the letters of p from k on, starting in cell c, stays in the
\* grid, crosses only walls open on both sides and ends in cell `last`.
RECURSIVE ValidWalk(_, _, _, _, _)
ValidWalk(m, c, p, k, last) ==
    IF k > Len(p) THEN c = last
    ELSE /\ p[k] \in Dirs
         /\ Toward(c, p[k]) \in Cells
         /\ Flag(m, c, p[k])
         /\ Flag(m, Toward(c, p[k]), Opposite(p[k]))
         /\ ValidWalk(m, Toward(c, p[k]), p, k + 1, last)

\* The number of passages on a shortest route from the set S to cell b
\* (b reachable from S), counted from k.
RECURSIVE Distance(_, _, _, _)
Distance(m, S, b, k) ==
    IF b \in S THEN k
    ELSE Distance(m, S \cup {c \in Cells : \E a \in S : Passage(m, a, c)},
                  b, k + 1)

\* C5: on a wall-symmetric grid, with the exit reachable from the entry, the
\* string shortest_path returns is a valid walk from the entry cell to the
\* exit cell and its length is the breadth-first distance between them.
ShortestPathCorrect ==
    (pc = "path_done" /\ SymmetricWalls(self_maze)
        /\ ExitCell \in ReachOpen(self_maze, {EntryCell})) =>
        /\ ValidWalk(self_maze, EntryCell, path, 1, ExitCell)
        /\ Len(path) = Distance(self_maze, {EntryCell}, ExitCell, 0)

\* C5's case: a grid with a cycle, where a longer route to the exit exists
\* besides the one returned, which turns a corner.
ShortestPathCorrectWitness ==
    /\ pc = "path_done"
    /\ Cardinality(OpenEdges(self_maze)) >= Cardinality(Free(self_maze))
    /\ Reserved(self_maze) # {}
    /\ Len(path) = 3
    /\ Cardinality(Chars(path)) >= 2

-----------------------------------------------------------------------------
(* Properties of the codec *)

\* C6: parsing the file write_output_file wrote gives back the hex rows,
\* the width and height, the entry, the exit and the path.
RoundTrip ==
    pc = "parsed" =>
        /\ parsed.raised = NoError
        /\ parsed.hex_lines = ToHexMatrix(self_maze)
        /\ parsed.width = width
        /\ parsed.height = height
        /\ parsed.entry = entry
        /\ parsed.exit = exit_
        /\ parsed.path = path

Bit(b) == IF b THEN 0 ELSE 1

\* C8: every digit of to_hex_matrix is the hex digit of 1*(north closed) +
\* 2*(east closed) + 4*(south closed) + 8*(west closed), cells with different
\* walls get different digits, and the result is H strings of W digits in
\* row-major order.
HexEncoding ==
    pc = "hex_done" =>
        /\ DOMAIN hex_matrix = 1..height
        /\ \A r \in 1..height :
              /\ DOMAIN hex_matrix[r] = 1..width
              /\ \A c \in 1..width :
                    LET cell == self_maze[r - 1][c - 1]
                    IN hex_matrix[r][c] =
                          HexDigits[1 + Bit(cell.n) + 2 * Bit(cell.e)
                                      + 4 * Bit(cell.s) + 8 * Bit(cell.w)]
        /\ \A a, b \in Cells :
              hex_matrix[a[1] + 1][a[2] + 1] = hex_matrix[b[1] + 1][b[2] + 1]
                  => \A d \in Dirs : Flag(self_maze, a, d) = Flag(self_maze, b, d)

\* C8's case: a row of two cells with different walls, one of them with the
\* east wall closed and the south wall open.
HexEncodingWitness ==
    /\ pc = "hex_done"
    /\ width = 2
    /\ ~self_maze[0][0].e /\ self_maze[0][0].s
    /\ self_maze[0][1].e /\ ~self_maze[0][1].s

-----------------------------------------------------------------------------
(* Properties of the grid builder *)

\* C9: the built grid has H rows of W cells, all walls closed, all
\* unvisited; for H >= 5 and W >= 7 the reserved cells are exactly the cells
\* (floor((H-5)/2) + py, floor((W-7)/2) + px) with a 1 in the pattern at
\* (py, px); otherwise no cell is reserved; no error is raised.
GridBuilt ==
    pc = "find_start" =>
        /\ err = NoError
        /\ DOMAIN maze = 0..(height - 1)
        /\ \A y \in 0..(height - 1) :
              /\ DOMAIN maze[y] = 0..(width - 1)
              /\ \A x \in 0..(width - 1) :
                    /\ ~maze[y][x].n /\ ~maze[y][x].s
                    /\ ~maze[y][x].e /\ ~maze[y][x].w
                    /\ ~maze[y][x].visited
        /\ Reserved(maze) =
              IF height >= 5 /\ width >= 7
              THEN {<<((height - 5) \div 2) + py, ((width - 7) \div 2) + px>> :
                        <<py, px>> \in {q \in (0..4) \X (0..6) :
                                           PATTERN_42[q[1] + 1][q[2] + 1] = 1}}
              ELSE {}

\* C9's case: a grid with room around the pattern on all sides.
GridBuiltWitness ==
    /\ pc = "find_start"
    /\ width >= 9 /\ height >= 7
    /\ maze[1][1].is_42
    /\ ~maze[0][0].is_42


-----------------------------------------------------------------------------
(* Determinism *)

\* C7: any two runs with the same width, height, entry, exit and seed wrote
\* the same grid, the same path and the same text.
Determinism ==
    \A i, j \in 1..Len(runs) :
        (/\ runs[i].seed # None
         /\ runs[i].seed = runs[j].seed
         /\ runs[i].width = runs[j].width
         /\ runs[i].height = runs[j].height
         /\ runs[i].entry = runs[j].entry
         /\ runs[i].exit = runs[j].exit)
        => /\ runs[i].hex = runs[j].hex
           /\ runs[i].path = runs[j].path
           /\ runs[i].content = runs[j].content

-----------------------------------------------------------------------------
(* Properties of the start resolution *)

Abs(i) == IF i < 0 THEN -i ELSE i

\* The Chebyshev distance of cell f from cell e, then its column offset and
\* its row offset: the order in which the scan of _find_start_cell meets f.
ScanKey(f, e) ==
    <<Max(Abs(f[1] - e[1]), Abs(f[2] - e[2])), f[2] - e[2], f[1] - e[1]>>

LexLeq(a, b) ==
    \/ a[1] < b[1]
    \/ a[1] = b[1] /\ a[2] < b[2]
    \/ a[1] = b[1] /\ a[2] = b[2] /\ a[3] <= b[3]

\* C11: for an in-bounds request, _find_start_cell returns a non-reserved
\* request unchanged; for a reserved one it returns the non-reserved cell
\* the scan (radius, then dx, then dy) meets first, which is at minimum
\* Chebyshev distance; it raises ValueError exactly when no cell of the grid
\* is non-reserved; it never returns a reserved cell.
StartResolution ==
    [][(pc = "find_start" /\ EntryInGrid) =>
         LET e == <<entry[2] - 1, entry[1] - 1>>
             free == Free(maze)
             c == <<call'[2], call'[1]>>
         IN /\ (pc' = "raised") = (free = {})
            /\ pc' = "raised" => err' = "ValueError"
            /\ free # {} =>
                  /\ pc' = "call"
                  /\ c \in free
                  /\ e \in free => c = e
                  /\ \A f \in free : LexLeq(ScanKey(c, e), ScanKey(f, e))]_vars

\* C11's case: a reserved request whose nearest non-reserved cell is two
\* rings away.
StartResolutionWitness ==
    /\ pc = "call"
    /\ EntryInGrid
    /\ maze[entry[2] - 1][entry[1] - 1].is_42
    /\ ScanKey(<<call[2], call[1]>>, <<entry[2] - 1, entry[1] - 1>>)[1] >= 2

-----------------------------------------------------------------------------
(* Properties of the maze attribute *)

\* C12: shortest_path and to_hex_matrix called while the maze attribute is
\* None raise ValueError and return nothing; the attribute is None from
\* construction on and changes only when a generate() call finishes carving,
\* to the grid it carved; a generate() that raises leaves it as it was.
NoDataBeforeGenerate ==
    /\ [](self_maze = None =>
             /\ pc \notin {"bfs", "rebuild", "path_done", "hex_done", "generated"}
             /\ path = None
             /\ hex_matrix = None)
    /\ [][(self_maze = None /\ pc = "idle" /\ pc' \notin {"idle", "find_start"}) =>
             (pc' = "raised" /\ err' = "ValueError")]_vars
    /\ [][self_maze' # self_maze =>
             /\ pc = "loop" /\ Len(stack) = 1 /\ pc' = "generated"
             /\ self_maze' = maze
             /\ self_maze' # None]_vars
    /\ [][pc' = "raised" => self_maze' = self_maze]_vars

\* C12's case: a generate() that raised on a generator that had generated
\* before.
NoDataBeforeGenerateWitness ==
    /\ pc = "raised"
    /\ err = "IndexError"
    /\ self_maze # None

-----------------------------------------------------------------------------
(* Properties of shortest_path's checks *)

ExitInGrid == exit_[1] \in 1..width /\ exit_[2] \in 1..height

\* C13: on a generated maze, shortest_path called with an entry or an exit
\* outside the grid raises ValueError before the search has set up or
\* visited anything, the coordinates are never moved into the grid, a call
\* with both in the grid does not raise, and the grid is never changed.
PathArgumentsChecked ==
    /\ []((self_maze # None /\ exit_ # None) =>
             IF EntryInGrid /\ ExitInGrid
             THEN pc # "raised" /\ err = NoError
             ELSE /\ pc = "raised" /\ err = "ValueError"
                  /\ visited = None /\ prev = None /\ queue = <<>>
                  /\ path = None)
    /\ [][self_maze # None => self_maze' = self_maze]_vars

\* C13's case: an exit one column past the right edge, with the entry inside.
PathArgumentsCheckedWitness ==
    /\ self_maze # None
    /\ pc = "raised"
    /\ EntryInGrid
    /\ exit_ # None
    /\ exit_[1] = width + 1
    /\ exit_[2] \in 1..height

\* C14: for an in-bounds entry and a different in-bounds exit, shortest_path
\* does not raise and returns the empty string exactly when the exit cannot
\* be reached from the entry through walls open on both sides; so it is
\* empty whenever the entry or the exit is a reserved cell.
EmptyPathIffUnreachable ==
    /\ (self_maze # None /\ exit_ # None /\ EntryInGrid /\ ExitInGrid) =>
           pc # "raised"
    /\ (pc = "path_done" /\ EntryCell # ExitCell) =>
           /\ err = NoError
           /\ (path = <<>>) = (ExitCell \notin ReachOpen(self_maze, {EntryCell}))
           /\ (EntryCell \in Reserved(self_maze) \/ ExitCell \in Reserved(self_maze))
                 => path = <<>>

\* C14's case: the exit is next to the entry, the wall between them is
\* closed, the search left the entry through another wall and found no way
\* round.
EmptyPathIffUnreachableWitness ==
    /\ pc = "path_done"
    /\ path = <<>>
    /\ \E d \in Dirs : Toward(EntryCell, d) = ExitCell
    /\ Cardinality(ReachOpen(self_maze, {EntryCell})) >= 3
    /\ Cardinality(ReachOpen(self_maze, {ExitCell})) >= 2

-----------------------------------------------------------------------------
(* Properties of the decoder *)

\* What a coordinate line of FileLines means: "2,1" is (2, 1), "1, 2" is
\* (1, 2), anything else is not a pair of numbers and gives the default.
CoordMeaning(line, default) ==
    IF line = <<"2", ",", "1">> THEN <<2, 1>>
    ELSE IF line = <<"1", ",", " ", "2">> THEN <<1, 2>>
    ELSE default

\* C15: when the file has hex rows, parse_maze_file returns as width the
\* length of the first one and as height their number; row i is the i-th
\* hex row cut to its first width characters or filled on the right with
\* "0" up to width; the entry is read from the first line with a comma, the
\* exit from the second; a missing entry is (1, 1), a missing exit
\* (width, height).
FileDecoded ==
    pc = "parsed" =>
        LET lines == ReadFileLines(content)
            IsRow(l) == IsHexLine(l)
            IsCoord(l) == "," \in Chars(l)
            rows == SelectSeq(lines, IsRow)
            coords == SelectSeq(lines, IsCoord)
            w == Len(rows[1])
            h == Len(rows)
        IN rows # <<>> =>
            /\ parsed.raised = NoError
            /\ parsed.width = w
            /\ parsed.height = h
            /\ Len(parsed.hex_lines) = h
            /\ \A i \in 1..h :
                  /\ Len(parsed.hex_lines[i]) = w
                  /\ \A j \in 1..w :
                        parsed.hex_lines[i][j] =
                            IF j <= Len(rows[i]) THEN rows[i][j] ELSE "0"
            /\ parsed.entry = IF Len(coords) >= 1
                              THEN CoordMeaning(coords[1], <<1, 1>>)
                              ELSE <<1, 1>>
            /\ parsed.exit = IF Len(coords) >= 2
                             THEN CoordMeaning(coords[2], <<w, h>>)
                             ELSE <<w, h>>

\* C15's case: a short row filled with "0" after a row of three digits, an
\* entry line, and no exit line.
FileDecodedWitness ==
    /\ pc = "parsed"
    /\ parsed.raised = NoError
    /\ parsed.hex_lines = << <<"1", "b", "E">>, <<"5", "0", "0">> >>
    /\ parsed.entry = <<2, 1>>
    /\ parsed.exit = <<3, 2>>

\* A line that is no hex row, has no comma and is not made of direction
\* letters only.
Ignorable(line) ==
    /\ line # <<>>
    /\ ~(Chars(line) \subseteq HexChars)
    /\ "," \notin Chars(line)
    /\ ~(Chars(line) \subseteq {"N", "S", "E", "W", "n", "s", "e", "w"})

InsertAt(seq, k, x) == SubSeq(seq, 1, k) \o <<x>> \o SubSeq(seq, k + 1, Len(seq))

\* C16: putting a line that is neither a hex row, nor a coordinate line, nor
\* a path line anywhere into a file that parses changes nothing of what
\* parse_maze_file returns.
LenientDecoding ==
    (pc = "parsed" /\ parsed.raised = NoError) =>
        LET lines == ReadLines(content, <<>>)
        IN \A junk \in {l \in FileLines : Ignorable(l)}, k \in 0..Len(lines) :
              ParseMazeFile(FileText(InsertAt(lines, k, junk))) = parsed

-----------------------------------------------------------------------------
(* Properties of the entry handling and of the outer boundary *)

\* C17: for every entry, generate() either raises and leaves nothing carved,
\* or starts carving at a cell of [0,W) x [0,H) that is not reserved, and at
\* the entry cell itself when that is in the grid and not reserved.
CarvingStartsInGrid ==
    /\ (pc = "raised" /\ exit_ = None) => (maze = None /\ self_maze = None)
    /\ (pc = "call" /\ stack = <<>>) =>
           /\ 0 <= call[1] /\ call[1] < width
           /\ 0 <= call[2] /\ call[2] < height
           /\ ~maze[call[2]][call[1]].is_42
           /\ (EntryInGrid /\ ~maze[entry[2] - 1][entry[1] - 1].is_42)
                 => call = <<entry[1] - 1, entry[2] - 1>>

\* The value of a hex digit.
HexValue(d) == CHOOSE v \in 0..15 : HexDigits[v + 1] = d

HasBit(d, b) == (HexValue(d) \div b) % 2 = 1

ClosedOutside(m) ==
    /\ \A x \in 0..(width - 1) : ~m[0][x].n /\ ~m[height - 1][x].s
    /\ \A y \in 0..(height - 1) : ~m[y][0].w /\ ~m[y][width - 1].e

\* C19: in every state during and after carving no cell has an open wall
\* toward the outside of the grid, and every digit written for the top row
\* has bit 1, for the bottom row bit 4, for the left column bit 8 and for
\* the right column bit 2.
ClosedBoundary ==
    /\ maze # None => ClosedOutside(maze)
    /\ self_maze # None => ClosedOutside(self_maze)
    /\ hex_matrix # None =>
          /\ \A x \in 1..width : /\ HasBit(hex_matrix[1][x], 1)
                                 /\ HasBit(hex_matrix[height][x], 4)
          /\ \A y \in 1..height : /\ HasBit(hex_matrix[y][1], 8)
                                  /\ HasBit(hex_matrix[y][width], 2)

\* C20: in the hex rows of a maze generated from an in-bounds entry, a cell
\* has the digit F exactly when it is a reserved cell.
DigitFIffReserved ==
    (hex_matrix # None /\ EntryInGrid) =>
        \A y \in 0..(height - 1), x \in 0..(width - 1) :
            (hex_matrix[y + 1][x + 1] = "F") = self_maze[y][x].is_42

-----------------------------------------------------------------------------
(* Termination of the carver and of the search *)

\* While carving from a start in the grid: _backtrack is entered only on a
\* cell not yet visited, and every visited cell but the first was reached by
\* one opened wall (the one toward the pending call is already open).  While
\* searching: no cell is twice in the queue, every enqueued cell is marked,
\* and the marked cells are the entry and the cells with a predecessor.
\* After the search: the path has at most (number of cells - 1) letters.
BoundedWork ==
    /\ pc = "call" => ~At(maze, call[1], call[2]).visited
    /\ (pc \in {"call", "loop"} /\ EntryInGrid) =>
          Cardinality({c \in Cells : maze[c[1]][c[2]].s})
            + Cardinality({c \in Cells : maze[c[1]][c[2]].e})
          = Cardinality(VisitedCells(maze)) - 1 + (IF pc = "call" THEN 1 ELSE 0)
    /\ pc \in {"bfs", "rebuild"} =>
          /\ \A i, j \in 1..Len(queue) : queue[i] = queue[j] => i = j
          /\ \A i \in 1..Len(queue) : visited[queue[i][1]][queue[i][2]]
          /\ {c \in Cells : visited[c[1]][c[2]]} = DOMAIN prev \cup {EntryCell}
    /\ pc = "path_done" => Len(path) <= Cardinality(Cells) - 1

\* A wall is opened only toward a cell not yet visited; the search appends
\* only cells not yet marked, and nothing once the exit has been dequeued.
BoundedStep ==
    /\ (pc = "loop" /\ pc' = "call") => ~maze[call'[2]][call'[1]].visited
    /\ (pc = "bfs" /\ pc' = "bfs" /\ queue' # queue) =>
          \A i \in Len(queue)..Len(queue') :
              ~visited[queue'[i][1]][queue'[i][2]]
    /\ (pc = "bfs" /\ pc' = "rebuild") =>
          /\ Head(queue) = ExitCell
          /\ queue' = Tail(queue)
          /\ visited' = visited
    /\ pc = "rebuild" => (queue' = queue /\ visited' = visited)

\* C18: carving terminates, with each cell the target of at most one
\* wall-opening and one recursive entry; the search terminates, with each
\* cell enqueued at most once and none after the exit was dequeued; the
\* walk back to the entry takes at most (number of cells - 1) steps.
Termination ==
    /\ []BoundedWork
    /\ [][BoundedStep]_vars
    /\ (pc = "call" ~> pc = "generated")
    /\ (pc = "bfs" ~> pc = "path_done")

\* C18's case: a search that ended on a grid with the pattern, with a path
\* of several letters.
TerminationWitness ==
    /\ pc = "path_done"
    /\ width >= PATTERN_WIDTH
    /\ Len(path) >= 4

=============================================================================
